---- MODULE Spec2Model ----
(***************************************************************************)
(* Gemelo Digital Chancay: the ingest gateway (apps/ingest/ingest.py), the *)
(* external collectors (apps/nasa_service, apps/esa_lima_service) and the  *)
(* cross-source aggregation of the API (apps/api/main.py).                 *)
(*                                                                         *)
(* Two specifications share the module:                                    *)
(*   Spec         the ingest gateway: subscriber() and on_message()        *)
(*   SpecCollect  the collectors' cycles and integrated_analysis()         *)
(***************************************************************************)
EXTENDS Integers, Sequences, FiniteSets, TLC

\* ------------------------------------------------------------------ bounds
\* Messages delivered on the subscription in one run.
MaxMsgs == 3
\* Storage faults (link losses and statement errors) injected in one run.
MaxFaults == 2
\* Collection cycles the two collectors run together.
MaxCycles == 2
\* Hours the wall clock advances in one run.
MaxClock == 1
\* Features the API clients insert in one run.
MaxFeatures == 2
\* Readings the API clients append in one run.
MaxReadings == 2
\* Messages, collection cycles, layers, features and readings the whole system
\* handles in one run, all together.
MaxWrites == 2

VARIABLES
    \* ---- ingest gateway (ingest.py)
    gwState,      \* Disconnected | Connecting | Subscribed | Processing | Terminated
    exit,         \* where an exception left the process: none | startup | handler
    pc,           \* position inside on_message: idle | decode | execute | commit | rollback
    cur,          \* arrival number of the message in on_message (0: none; kept when it raised)
    queue,        \* arrival numbers delivered and not yet handed to on_message
    log,          \* every payload delivered on the subscription, by arrival number
    attempts,     \* per arrival number, the cur.execute calls made for it
    rows,         \* gd.timeseries: the committed rows, in commit order
    txn,          \* rows written by the open transaction of conn (uncommitted)
    inTxn,        \* conn has a transaction in progress
    connClosed,   \* psycopg2 has marked conn closed (an operation met the lost link)
    dbUp,         \* the database is reachable
    brokerUp,     \* the MQTT broker is reachable
    timeNotNull,  \* gd.timeseries.time is declared NOT NULL (schema is not in the sources)
    faults,       \* storage faults injected so far
    \* ---- collectors (nasa_service.py, esa_lima_service.py) and the API (main.py)
    clock,        \* the wall clock, in hours
    tableExists,  \* per source, whether gd.<source>_data has been created
    store,        \* per source, the rows of gd.<source>_data, in insert order
    nasa,         \* the NASA collector: passes of its main loop, and the last one
    esa,          \* the ESA/Lima collector: passes of its main loop, and the last one
    iaResult,     \* the answer of the integrated_analysis call that just returned
    \* ---- the other operations of the API (main.py)
    layers,       \* gd.layers: the rows, in insert order
    features,     \* gd.features: the rows, in insert order
    calls,        \* per API client, the request it has in progress
    resp,         \* the response of the request that just ended
    open          \* who holds an open database connection (asyncpg.connect .. close)

ingestVars == <<gwState, exit, pc, cur, queue, log, attempts, rows, txn, inTxn,
                connClosed, dbUp, brokerUp, timeNotNull, faults>>

\* The gateway's own state: ingestVars without the table gd.timeseries.
gatewayVars == <<gwState, exit, pc, cur, queue, log, attempts, txn, inTxn,
                 connClosed, dbUp, brokerUp, timeNotNull, faults>>

collectVars == <<clock, tableExists, store, nasa, esa, iaResult>>

facadeVars == <<layers, features, calls, resp>>

vars == <<ingestVars, collectVars, facadeVars, open>>

\* ------------------------------------------------------------- payloads
\* The ts field of a payload: missing, a string that is no number, or a number.
TsAbsent == [t |-> "absent", n |-> 0]
TsText == [t |-> "text", n |-> 0]
TsNum(n) == [t |-> "num", n |-> n]

\* The time column of a row: an instant, SQL NULL, or the wall clock at insert.
TimeAt(n) == [t |-> "at", n |-> n]
TimeNull == [t |-> "null", n |-> 0]
TimeNow == [t |-> "now", n |-> 0]
TimeError == [t |-> "error", n |-> 0]

\* A payload as the broker delivers it: bytes that are not UTF-8, text that is
\* not JSON, JSON that is no object, or an object with sensor_id, value and an
\* optional ts (a number of UNIX seconds, a string that is no number, or absent).
Payloads ==
    { [kind |-> "notutf8", sensor_id |-> "", value |-> 0, ts |-> TsAbsent],
      [kind |-> "notjson", sensor_id |-> "", value |-> 0, ts |-> TsAbsent],
      [kind |-> "scalar",  sensor_id |-> "", value |-> 0, ts |-> TsAbsent],
      [kind |-> "object",  sensor_id |-> "x", value |-> 1, ts |-> TsNum(1700000000)],
      [kind |-> "object",  sensor_id |-> "x", value |-> 1, ts |-> TsAbsent],
      [kind |-> "object",  sensor_id |-> "x", value |-> 1, ts |-> TsText] }

\* The exception line 41 or line 44 raises for a payload ("none": no exception).
\* bytes.decode raises UnicodeDecodeError, json.loads raises JSONDecodeError
\* (both ValueError); data.get on a value that is no dict raises AttributeError.
DecodeError(p) ==
    CASE p.kind = "notutf8" -> "UnicodeDecodeError"
      [] p.kind = "notjson" -> "JSONDecodeError"
      [] p.kind = "scalar"  -> "AttributeError"
      [] OTHER              -> "none"

\* A mutation of Caught: `except ValueError` instead of `except Exception`.
CaughtValueErrorOnly(err) == err \in {"UnicodeDecodeError", "JSONDecodeError"}

\* `except Exception` (line 47) catches every exception the body raises.
Caught(err) == TRUE

\* to_timestamp(%s) of data.get("ts"): NULL for a missing ts, an error for a
\* string that is no number, the instant otherwise.
ToTimestamp(ts) ==
    CASE ts.t = "absent" -> TimeNull
      [] ts.t = "text"   -> TimeError
      [] OTHER           -> TimeAt(ts.n)

\* The rows the INSERT of lines 42-45 writes for payload p with arrival number
\* k: one row, or none when the statement fails on its data.
InsertRow(p, k, notNull) ==
    LET t == ToTimestamp(p.ts) IN
    IF t = TimeError \/ (t = TimeNull /\ notNull)
    THEN <<>>
    ELSE <<[time |-> t, sensor_id |-> p.sensor_id, value |-> p.value, src |-> k]>>

\* A mutation of NextMsg: the newest pending message first.
NextMsgNewest(q) == q[Len(q)]

\* The receive loop hands over the oldest pending message (loop_forever, line 53).
NextMsg(q) == Head(q)

Rest(q, k) == SelectSeq(q, LAMBDA x : x # k)

SameRow(a, b) == a.time = b.time /\ a.sensor_id = b.sensor_id /\ a.value = b.value

\* A mutation of CommitRows: a stored row with the same sensor and time is
\* replaced by the new one (an upsert).
CommitRowsUpsert(rs, t) ==
    SelectSeq(rs, LAMBDA r : \A i \in 1..Len(t) : ~SameRow(r, t[i])) \o t

\* A mutation of CommitRows: a row equal to a stored one is not written again.
CommitRowsDedup(rs, t) ==
    rs \o SelectSeq(t, LAMBDA r : \A i \in 1..Len(rs) : ~SameRow(rs[i], r))

\* conn.commit() (line 46) makes the transaction's rows durable, after the others.
CommitRows(rs, t) == rs \o t

\* ------------------------------------------------------------------ Init
InitIngest ==
    /\ gwState = "Disconnected"
    /\ exit = "none"
    /\ pc = "idle"
    /\ cur = 0
    /\ queue = <<>>
    /\ log = <<>>
    /\ attempts = [k \in 1..MaxMsgs |-> 0]
    /\ rows = <<>>
    /\ txn = <<>>
    /\ inTxn = FALSE
    /\ connClosed = FALSE
    /\ dbUp \in BOOLEAN
    /\ brokerUp \in BOOLEAN
    /\ timeNotNull \in BOOLEAN
    /\ faults = 0

\* --------------------------------------------------- subscriber(), lines 33-53
\* conn = db_conn(): no try around it, so a failure ends subscriber() and main().
db_conn ==
    /\ gwState = "Disconnected"
    /\ IF dbUp
       THEN gwState' = "Connecting" /\ exit' = exit
       ELSE gwState' = "Terminated" /\ exit' = "startup"
    /\ UNCHANGED <<pc, cur, queue, log, attempts, rows, txn, inTxn, connClosed,
                   dbUp, brokerUp, timeNotNull, faults, collectVars, facadeVars, open>>

\* client.connect(host, port, 60); client.subscribe(...); client.loop_forever().
\* connect raises when the broker is unreachable; nothing catches it.
client_connect ==
    /\ gwState = "Connecting"
    /\ IF brokerUp
       THEN gwState' = "Subscribed" /\ exit' = exit
       ELSE gwState' = "Terminated" /\ exit' = "startup"
    /\ UNCHANGED <<pc, cur, queue, log, attempts, rows, txn, inTxn, connClosed,
                   dbUp, brokerUp, timeNotNull, faults, collectVars, facadeVars, open>>

\* The broker delivers a message on the subscription.
deliver(p) ==
    /\ gwState \in {"Subscribed", "Processing"}
    /\ Len(log) < MaxMsgs
    /\ log' = Append(log, p)
    /\ queue' = Append(queue, Len(log) + 1)
    /\ UNCHANGED <<gwState, exit, pc, cur, attempts, rows, txn, inTxn, connClosed,
                   dbUp, brokerUp, timeNotNull, faults, collectVars, facadeVars, open>>

\* loop_forever calls on_message for one message at a time.
loop_receive ==
    /\ gwState = "Subscribed"
    /\ queue # <<>>
    /\ cur' = NextMsg(queue)
    /\ queue' = Rest(queue, NextMsg(queue))
    /\ gwState' = "Processing"
    /\ pc' = "decode"
    /\ UNCHANGED <<exit, log, attempts, rows, txn, inTxn, connClosed,
                   dbUp, brokerUp, timeNotNull, faults, collectVars, facadeVars, open>>

\* ---------------------------------------------------- on_message, lines 39-48
\* Line 41 and the argument tuple of line 44.
on_message_decode ==
    /\ gwState = "Processing" /\ pc = "decode"
    /\ LET err == DecodeError(log[cur]) IN
       IF err = "none"
       THEN /\ pc' = "execute"
            /\ UNCHANGED <<gwState, exit, cur>>
       ELSE IF Caught(err)
       THEN /\ pc' = "rollback"
            /\ UNCHANGED <<gwState, exit, cur>>
       ELSE /\ pc' = "idle" /\ cur' = cur
            /\ gwState' = "Terminated" /\ exit' = "handler"
    /\ UNCHANGED <<queue, log, attempts, rows, txn, inTxn, connClosed,
                   dbUp, brokerUp, timeNotNull, faults, collectVars, facadeVars, open>>

\* cur.execute(INSERT ...), lines 42-45. The statement fails when the link is
\* lost (psycopg2 then marks conn closed), when its data is rejected, or on a
\* server-side error (stmtFails); otherwise the row joins the open transaction.
on_message_execute(stmtFails) ==
    /\ gwState = "Processing" /\ pc = "execute"
    /\ attempts' = [attempts EXCEPT ![cur] = @ + 1]
    /\ LET r == InsertRow(log[cur], cur, timeNotNull) IN
       IF ~dbUp
       THEN /\ connClosed' = TRUE
            /\ pc' = "rollback"
            /\ UNCHANGED <<txn, inTxn, faults>>
       ELSE IF stmtFails
       THEN /\ faults < MaxFaults
            /\ faults' = faults + 1
            /\ inTxn' = TRUE
            /\ pc' = "rollback"
            /\ UNCHANGED <<txn, connClosed>>
       ELSE IF r = <<>>
       THEN /\ inTxn' = TRUE
            /\ pc' = "rollback"
            /\ UNCHANGED <<txn, connClosed, faults>>
       ELSE /\ txn' = txn \o r
            /\ inTxn' = TRUE
            /\ pc' = "commit"
            /\ UNCHANGED <<connClosed, faults>>
    /\ UNCHANGED <<gwState, exit, cur, queue, log, rows, dbUp, brokerUp, timeNotNull,
                   collectVars, facadeVars, open>>

\* conn.commit(), line 46.
on_message_commit ==
    /\ gwState = "Processing" /\ pc = "commit"
    /\ IF ~dbUp
       THEN /\ connClosed' = TRUE
            /\ pc' = "rollback"
            /\ UNCHANGED <<gwState, cur, rows, txn, inTxn>>
       ELSE /\ rows' = CommitRows(rows, txn)
            /\ txn' = <<>>
            /\ inTxn' = FALSE
            /\ pc' = "idle" /\ cur' = 0
            /\ gwState' = "Subscribed"
            /\ UNCHANGED connClosed
    /\ UNCHANGED <<exit, queue, log, attempts, dbUp, brokerUp, timeNotNull, faults, collectVars, facadeVars, open>>

\* conn.rollback() in the except branch, line 48. It is not itself guarded: on
\* a connection marked closed it raises InterfaceError, and with a transaction
\* to abort over a lost link it raises OperationalError. The exception leaves
\* on_message, paho re-raises it out of loop_forever, and subscriber() ends.
\* With no transaction in progress on an open connection it sends nothing.
on_message_rollback ==
    /\ gwState = "Processing" /\ pc = "rollback"
    /\ IF connClosed \/ (inTxn /\ ~dbUp)
       THEN /\ gwState' = "Terminated" /\ exit' = "handler"
            /\ connClosed' = TRUE
            /\ cur' = cur
       ELSE /\ gwState' = "Subscribed"
            /\ cur' = 0
            /\ UNCHANGED <<exit, connClosed>>
    /\ txn' = <<>>
    /\ inTxn' = FALSE
    /\ pc' = "idle"
    /\ UNCHANGED <<queue, log, attempts, rows, dbUp, brokerUp, timeNotNull, faults, collectVars, facadeVars, open>>

\* ------------------------------------------------------------ environment
db_fails ==
    /\ dbUp /\ faults < MaxFaults
    /\ dbUp' = FALSE
    /\ faults' = faults + 1
    /\ UNCHANGED <<gwState, exit, pc, cur, queue, log, attempts, rows, txn, inTxn,
                   connClosed, brokerUp, timeNotNull, collectVars, facadeVars, open>>

db_recovers ==
    /\ ~dbUp
    /\ dbUp' = TRUE
    /\ UNCHANGED <<gwState, exit, pc, cur, queue, log, attempts, rows, txn, inTxn,
                   connClosed, brokerUp, timeNotNull, faults, collectVars, facadeVars, open>>

broker_recovers ==
    /\ ~brokerUp
    /\ brokerUp' = TRUE
    /\ UNCHANGED <<gwState, exit, pc, cur, queue, log, attempts, rows, txn, inTxn,
                   connClosed, dbUp, timeNotNull, faults, collectVars, facadeVars, open>>

\* ==================================================== collectors and the API
Sources == <<"NASA", "ESA", "LIMA">>
SourceSet == {"NASA", "ESA", "LIMA"}

\* asyncio.sleep arguments of the two main loops, in seconds.
NasaNormalSleep == 3600
NasaErrorSleep == 300
EsaNormalSleep == 7200
EsaErrorSleep == 600
\* hours_back: int = 24, the default of integrated_analysis.
DefaultHoursBack == 24

\* A parameter name or a query string as its characters. The long names of the
\* sources are shortened, keeping their case, their underscores and the part
\* they share: l_temp land_surface_temperature, nd_ix
\* normalized_difference_vegetation_index, b_co backscatter_coefficient,
\* s_temp sea_surface_temperature, t_ix traffic_flow_index; h_temp and x are
\* the sensor ids harbor_temp and x.
Chars(s) ==
    CASE s = "T2M"    -> <<"T", "2", "M">>
      [] s = "l_temp" -> <<"l", "_", "t", "e", "m", "p">>
      [] s = "nd_ix"  -> <<"n", "d", "_", "i", "x">>
      [] s = "b_co"   -> <<"b", "_", "c", "o">>
      [] s = "ndvi"   -> <<"n", "d", "v", "i">>
      [] s = "s_temp" -> <<"s", "_", "t", "e", "m", "p">>
      [] s = "pm25"   -> <<"p", "m", "2", "5">>
      [] s = "no2"    -> <<"n", "o", "2">>
      [] s = "t_ix"   -> <<"t", "_", "i", "x">>
      [] s = "temp"   -> <<"t", "e", "m", "p">>
      [] s = "t2m"    -> <<"t", "2", "m">>
      [] s = "%"      -> <<"%">>
      [] s = "_2"     -> <<"_", "2">>
      [] s = "wind"   -> <<"w", "i", "n", "d">>
      [] s = "h_temp" -> <<"h", "_", "t", "e", "m", "p">>
      [] s = "x"      -> <<"x">>

QueryParameters == {"temp", "t2m", "%", "_2", "wind"}
HoursBackValues == {1, DefaultHoursBack}

UpperCase == <<"A", "B", "C", "D", "E", "F", "G", "H", "I", "J", "K", "L", "M",
               "N", "O", "P", "Q", "R", "S", "T", "U", "V", "W", "X", "Y", "Z">>
LowerCase == <<"a", "b", "c", "d", "e", "f", "g", "h", "i", "j", "k", "l", "m",
               "n", "o", "p", "q", "r", "s", "t", "u", "v", "w", "x", "y", "z">>
OtherChars == {"0", "1", "2", "3", "4", "5", "6", "7", "8", "9", "_", "%"}
\* lower() of every character: ILIKE compares without regard to case.
LowerMap ==
    [c \in OtherChars \cup {UpperCase[i] : i \in 1..26} \cup {LowerCase[i] : i \in 1..26} |->
        IF \E i \in 1..26 : UpperCase[i] = c
        THEN LowerCase[CHOOSE i \in 1..26 : UpperCase[i] = c]
        ELSE c]
Lower(c) == LowerMap[c]

\* PostgreSQL's LIKE on characters: % matches any run, _ any one character.
RECURSIVE LikeMatch(_, _)
LikeMatch(str, pat) ==
    IF pat = <<>> THEN str = <<>>
    ELSE IF Head(pat) = "%"
    THEN LikeMatch(str, Tail(pat)) \/ (str # <<>> /\ LikeMatch(Tail(str), pat))
    ELSE /\ str # <<>>
         /\ (Head(pat) = "_" \/ Lower(Head(pat)) = Lower(Head(str)))
         /\ LikeMatch(Tail(str), Tail(pat))

\* parameter ILIKE $1 with $1 = f"%{parameter}%" (main.py lines 406-407).
ILike(name, parameter) == LikeMatch(Chars(name), <<"%">> \o Chars(parameter) \o <<"%">>)

\* WHERE parameter ILIKE $1 AND timestamp >= $2.
RowMatches(r, parameter, cutoff) == ILike(r.parameter, parameter) /\ r.timestamp >= cutoff

RECURSIVE SumValues(_)
SumValues(rs) == IF rs = <<>> THEN 0 ELSE Head(rs).value + SumValues(Tail(rs))
MinValue(rs) == CHOOSE v \in {rs[i].value : i \in 1..Len(rs)} :
                    \A i \in 1..Len(rs) : v <= rs[i].value
MaxValue(rs) == CHOOSE v \in {rs[i].value : i \in 1..Len(rs)} :
                    \A i \in 1..Len(rs) : v >= rs[i].value

\* A mutation of SourceStats: the third query reads gd.timeseries (its sensor_id
\* and time columns) instead of gd.lima_data.
SourceStatsFromTimeseries(source, rs, parameter, cutoff) ==
    LET ts == [i \in 1..Len(rows) |->
                  [parameter |-> rows[i].sensor_id, timestamp |-> rows[i].time.n,
                   value |-> rows[i].value]]
        m == SelectSeq(IF source = "LIMA" THEN ts ELSE rs,
                       LAMBDA r : RowMatches(r, parameter, cutoff))
    IN [source |-> source, count |-> Len(m),
        sum_value |-> SumValues(m),
        min_value |-> IF m = <<>> THEN 0 ELSE MinValue(m),
        max_value |-> IF m = <<>> THEN 0 ELSE MaxValue(m)]

\* SELECT '<source>', COUNT(*), AVG(value), MIN(value), MAX(value) over the
\* matching rows; the average is kept as the pair sum / count, and the
\* aggregates of no rows are NULL (here 0 with count = 0).
SourceStats(source, rs, parameter, cutoff) ==
    LET m == SelectSeq(rs, LAMBDA r : RowMatches(r, parameter, cutoff)) IN
    [source |-> source, count |-> Len(m),
     sum_value |-> SumValues(m),
     min_value |-> IF m = <<>> THEN 0 ELSE MinValue(m),
     max_value |-> IF m = <<>> THEN 0 ELSE MaxValue(m)]

\* A mutation of Included: every source is listed.
IncludedAlways(stats) == TRUE

\* `if stats and stats["count"] > 0` (main.py line 427).
Included(stats) == stats.count > 0

RECURSIVE TotalCount(_)
\* sum(r["count"] for r in results), line 434.
TotalCount(results) ==
    IF results = <<>> THEN 0 ELSE Head(results).count + TotalCount(Tail(results))

\* ------------------------------------------------------------- the batches
\* fetch_nasa_power_data on a 200 answer: daily values of the last days (one
\* parameter and yesterday's value here).
PowerData(now) ==
    <<[parameter |-> "T2M", timestamp |-> now - 24, value |-> 20]>>

\* fetch_synthetic_satellite_data: per hour a MODIS_LST and a MODIS_NDVI point
\* (the latest hour of the 24 here).
SyntheticSatellite(now) ==
    <<[parameter |-> "l_temp", timestamp |-> now, value |-> 20],
      [parameter |-> "nd_ix", timestamp |-> now, value |-> 0]>>

\* fetch_synthetic_esa_data: Sentinel-1 backscatter, Sentinel-2 NDVI and
\* Sentinel-3 sea surface temperature (the latest point of each here).
SyntheticEsa(now) ==
    <<[parameter |-> "b_co", timestamp |-> now, value |-> -15],
      [parameter |-> "ndvi", timestamp |-> now, value |-> 0],
      [parameter |-> "s_temp", timestamp |-> now, value |-> 18]>>

\* fetch_synthetic_lima_data: per hour and station pm25 and no2, per hour and
\* avenue the traffic flow index (the latest hour, one station and one avenue
\* here).
SyntheticLima(now) ==
    <<[parameter |-> "pm25", timestamp |-> now, value |-> 25],
      [parameter |-> "no2", timestamp |-> now, value |-> 35],
      [parameter |-> "t_ix", timestamp |-> now, value |-> 30]>>

\* Where a store call fails: nowhere, at get_database_connection, or at its
\* k-th INSERT.
NoFailure == [at |-> "none", k |-> 0]
ConnFailure == [at |-> "conn", k |-> 0]
InsertFailure(k) == [at |-> "insert", k |-> k]
\* The longest batch of the three sources.
MaxBatch == Len(PowerData(0) \o SyntheticSatellite(0))
Failures(n) == {NoFailure, ConnFailure} \cup {InsertFailure(k) : k \in 1..n}

\* A mutation of StoreBatch: the INSERTs of a batch share one transaction,
\* which a failing INSERT rolls back.
StoreBatchInTransaction(exists, rs, batch, failure) ==
    IF batch = <<>>
    THEN [exists |-> exists, rows |-> rs, raised |-> FALSE, stored |-> 0]
    ELSE IF failure.at = "conn"
    THEN [exists |-> exists, rows |-> rs, raised |-> TRUE, stored |-> 0]
    ELSE IF failure.at = "insert" /\ failure.k <= Len(batch)
    THEN [exists |-> TRUE, rows |-> rs, raised |-> TRUE, stored |-> 0]
    ELSE [exists |-> TRUE, rows |-> rs \o batch, raised |-> FALSE,
          stored |-> Len(batch)]

\* store_data_points / store_esa_data / store_lima_data: nothing for an empty
\* batch; else connect, CREATE TABLE IF NOT EXISTS, then one INSERT per point,
\* each its own transaction, until one raises. Gives the table's existence and
\* rows afterwards, and whether an exception left the call.
StoreBatch(exists, rs, batch, failure) ==
    IF batch = <<>>
    THEN [exists |-> exists, rows |-> rs, raised |-> FALSE, stored |-> 0]
    ELSE IF failure.at = "conn"
    THEN [exists |-> exists, rows |-> rs, raised |-> TRUE, stored |-> 0]
    ELSE IF failure.at = "insert" /\ failure.k <= Len(batch)
    THEN [exists |-> TRUE, rows |-> rs \o SubSeq(batch, 1, failure.k - 1),
          raised |-> TRUE, stored |-> failure.k - 1]
    ELSE [exists |-> TRUE, rows |-> rs \o batch, raised |-> FALSE,
          stored |-> Len(batch)]

\* asyncpg.connect returned: the caller holds an open connection.
get_conn(held, who) == held \cup {who}

\* A mutation of conn_close: the connection is closed on the normal return only.
conn_close_on_return(held, who, raised) == IF raised THEN held ELSE held \ {who}

\* `finally: await conn.close()`: the connection is closed however the body ended.
conn_close(held, who, raised) == held \ {who}

\* The connections held after a store call: none is acquired for an empty batch
\* or when get_database_connection raises; else the finally block closes it.
StoreConnection(held, who, batch, failure) ==
    IF batch = <<>> \/ failure.at = "conn"
    THEN held
    ELSE conn_close(get_conn(held, who), who,
                    failure.at = "insert" /\ failure.k <= Len(batch))

\* `except Exception` of fetch_and_store_all_data (nasa line 244, esa line 344)
\* catches whatever the cycle raises and logs it.
CycleCatches(raised) == TRUE

\* main(): sleep the normal interval after fetch_and_store_all_data returns,
\* the short one when an exception reaches the loop.
SleepAfter(reachedLoop, normal, short) == IF reachedLoop THEN short ELSE normal

\* No call has just returned.
NoAnswer == [status |-> "none", cause |-> "none", parameter |-> "", hours_back |-> 0,
             sources |-> <<>>, total_data_points |-> 0]

InitCollect ==
    /\ clock = 0
    /\ tableExists = [s \in SourceSet |-> FALSE]
    /\ store = [s \in SourceSet |-> <<>>]
    /\ nasa = [cycles |-> 0, fetchFailed |-> FALSE, error |-> FALSE,
               stored |-> 0, sleep |-> 0]
    /\ esa = [cycles |-> 0, error |-> FALSE,
              storedEsa |-> 0, storedLima |-> 0, sleep |-> 0]
    /\ iaResult = NoAnswer

\* One pass of the NASA main loop (nasa_service.py lines 227-257): fetch the
\* POWER data ([] when the request fails, lines 96-106), generate the
\* synthetic batch, store both, then sleep until the next pass.
nasa_cycle(fetchOk, failure) ==
    /\ nasa.cycles + esa.cycles < MaxCycles
    /\ LET power_data == IF fetchOk THEN PowerData(clock) ELSE <<>>
           satellite_data == SyntheticSatellite(clock)
           all_data == power_data \o satellite_data
           out == StoreBatch(tableExists["NASA"], store["NASA"], all_data, failure)
           reachedLoop == out.raised /\ ~CycleCatches(out.raised)
       IN /\ failure \in Failures(Len(all_data))
          /\ tableExists' = [tableExists EXCEPT !["NASA"] = out.exists]
          /\ store' = [store EXCEPT !["NASA"] = out.rows]
          /\ nasa' = [cycles |-> nasa.cycles + 1,
                      fetchFailed |-> ~fetchOk, error |-> ~fetchOk \/ out.raised,
                      stored |-> out.stored,
                      sleep |-> SleepAfter(reachedLoop, NasaNormalSleep, NasaErrorSleep)]
          /\ open' = StoreConnection(open, "nasa", all_data, failure)
    /\ iaResult' = NoAnswer
    /\ UNCHANGED <<ingestVars, facadeVars, clock, esa>>

\* One pass of the ESA/Lima main loop (esa_lima_service.py lines 327-357):
\* generate both batches, store the ESA one, then the Lima one; an exception of
\* the first store skips the second.
esa_cycle(failing, failure) ==
    /\ nasa.cycles + esa.cycles < MaxCycles
    /\ LET esa_data == SyntheticEsa(clock)
           lima_data == SyntheticLima(clock)
           failEsa == IF failing = "ESA" THEN failure ELSE NoFailure
           failLima == IF failing = "LIMA" THEN failure ELSE NoFailure
           e == StoreBatch(tableExists["ESA"], store["ESA"], esa_data, failEsa)
           l == IF e.raised
                THEN [exists |-> tableExists["LIMA"], rows |-> store["LIMA"],
                      raised |-> FALSE, stored |-> 0]
                ELSE StoreBatch(tableExists["LIMA"], store["LIMA"], lima_data, failLima)
           raised == e.raised \/ l.raised
           reachedLoop == raised /\ ~CycleCatches(raised)
       IN /\ failing = "ESA" => failure \in Failures(Len(esa_data)) \ {NoFailure}
          /\ failing = "LIMA" => failure \in Failures(Len(lima_data))
          /\ tableExists' = [tableExists EXCEPT !["ESA"] = e.exists, !["LIMA"] = l.exists]
          /\ store' = [store EXCEPT !["ESA"] = e.rows, !["LIMA"] = l.rows]
          /\ esa' = [cycles |-> esa.cycles + 1, error |-> raised,
                     storedEsa |-> e.stored, storedLima |-> l.stored,
                     sleep |-> SleepAfter(reachedLoop, EsaNormalSleep, EsaErrorSleep)]
          /\ open' = IF e.raised
                     THEN StoreConnection(open, "esa", esa_data, failEsa)
                     ELSE StoreConnection(StoreConnection(open, "esa", esa_data, failEsa),
                                          "esa", lima_data, failLima)
    /\ iaResult' = NoAnswer
    /\ UNCHANGED <<ingestVars, facadeVars, clock, nasa>>

\* An hour passes.
tick ==
    /\ clock < MaxClock
    /\ clock' = clock + 1
    /\ iaResult' = NoAnswer
    /\ UNCHANGED <<ingestVars, facadeVars, open, tableExists, store, nasa, esa>>

\* integrated_analysis (main.py lines 392-438): three fetchrow calls in a row,
\* none guarded, so the first one that raises (its table does not exist) ends
\* the call with an error after conn.close(); else the sources with rows.
integrated_analysis(parameter, hours_back, connOk) ==
    /\ iaResult = NoAnswer
    /\ LET cutoff_time == clock - hours_back
           stats == [i \in 1..Len(Sources) |->
                        SourceStats(Sources[i], store[Sources[i]], parameter, cutoff_time)]
           results == SelectSeq(stats, Included)
           failed(cause) == [status |-> "error", cause |-> cause, parameter |-> "",
                             hours_back |-> 0, sources |-> <<>>,
                             total_data_points |-> 0]
           raised == \E s \in SourceSet : ~tableExists[s]
       IN /\ iaResult' =
               IF ~connOk THEN failed("connect")
               ELSE IF raised THEN failed("query")
               ELSE [status |-> "ok", cause |-> "none", parameter |-> parameter,
                     hours_back |-> hours_back, sources |-> results,
                     total_data_points |-> TotalCount(results)]
          /\ open' = IF connOk THEN conn_close(get_conn(open, "api"), "api", raised)
                     ELSE open
    /\ UNCHANGED <<ingestVars, facadeVars, clock, tableExists, store, nasa, esa>>

\* The answer has gone to the caller.
ia_respond ==
    /\ iaResult # NoAnswer
    /\ iaResult' = NoAnswer
    /\ UNCHANGED <<ingestVars, facadeVars, open, clock, tableExists, store, nasa, esa>>

\* ========================================= the other operations of the API
\* The API clients whose requests may overlap.
Callers == {"c1", "c2"}
LayerNames == {"ports", "zones"}
SensorIds == {"h_temp", "x"}
\* limit: int = 100, the default of get_features.
DefaultLimit == 100
Limits == {-1, 0, 1, DefaultLimit}

\* A WKT text as PostGIS reads it: whether ST_GeomFromText parses it, the
\* ST_Area of its geography, and the cells of the region it covers (a point
\* covers a cell and has no area).
Geoms ==
    { [valid |-> TRUE,  area |-> 2, cells |-> {1}],
      [valid |-> TRUE,  area |-> 0, cells |-> {2}],
      [valid |-> FALSE, area |-> 0, cells |-> {}] }

\* ST_Intersects(geom, ST_GeomFromText($2,4326)).
ST_Intersects(g, q) == g.cells \cap q.cells # {}

\* No request in progress.
Idle == [op |-> "idle", stage |-> "idle", layer_id |-> 0]

\* The handlers that resolve a layer name first, and the status of their
\* HTTPException when no layer has the name.
LayerOps == {"layer_area", "intersect", "insert_feature", "get_features"}
NotFoundStatus(op) == IF op = "insert_feature" THEN 400 ELSE 404

\* The time argument of insert_ts and the bounds of ts_stats: absent, or a
\* string: empty, decimal digits, an ISO-8601 text (with an offset or with a
\* trailing Z) of the instant n, or another text.
NoTime == [form |-> "absent", digits |-> <<>>, n |-> 0]
EmptyTime == [form |-> "empty", digits |-> <<>>, n |-> 0]
DigitTime(ds) == [form |-> "digits", digits |-> ds, n |-> 0]
IsoTime(n) == [form |-> "iso", digits |-> <<>>, n |-> n]
IsoZTime(n) == [form |-> "isoZ", digits |-> <<>>, n |-> n]
OtherTime == [form |-> "other", digits |-> <<>>, n |-> 0]

\* The largest second datetime.fromtimestamp takes (year 9999), on the scale of
\* the model's clock.
MaxInstant == 9

DigitValue ==
    [d \in {"0", "1", "2", "3", "4", "5", "6", "7", "8", "9"} |->
        CASE d = "0" -> 0 [] d = "1" -> 1 [] d = "2" -> 2 [] d = "3" -> 3
          [] d = "4" -> 4 [] d = "5" -> 5 [] d = "6" -> 6 [] d = "7" -> 7
          [] d = "8" -> 8 [] d = "9" -> 9]

RECURSIVE IntOf(_)
\* int(t) of a string of decimal digits.
IntOf(ds) ==
    IF ds = <<>> THEN 0
    ELSE 10 * IntOf(SubSeq(ds, 1, Len(ds) - 1)) + DigitValue[ds[Len(ds)]]

\* A parsed time: the instant, or None.
NoneTime == [some |-> FALSE, n |-> 0]
SomeTime(n) == [some |-> TRUE, n |-> n]

\* datetime.fromtimestamp(int(t)): OverflowError or ValueError past the range.
FromTimestamp(ds) == IF IntOf(ds) <= MaxInstant THEN SomeTime(IntOf(ds)) ELSE NoneTime

\* `if s.endswith('Z'): s = s.replace('Z', '+00:00')`, then
\* datetime.fromisoformat(s): ValueError for a text that is no ISO-8601 date.
FromIsoFormat(t) == IF t.form \in {"iso", "isoZ"} THEN SomeTime(t.n) ELSE NoneTime

\* A mutation of ParseTime: the digits are not read as UNIX seconds.
ParseTimeIsoOnly(t) ==
    IF t.form \in {"absent", "empty"} THEN NoneTime ELSE FromIsoFormat(t)

\* insert_ts, lines 179-190: None for no time or an empty one; a digit-only
\* string through fromtimestamp, any other through fromisoformat; an exception
\* of either leaves None.
ParseTime(t) ==
    IF t.form \in {"absent", "empty"} THEN NoneTime
    ELSE IF t.form = "digits" THEN FromTimestamp(t.digits)
    ELSE FromIsoFormat(t)

\* A mutation of ParseDt: a digit-only bound is read as UNIX seconds, the way
\* insert_ts reads its time.
ParseDtUnixSeconds(t) ==
    IF t.form \in {"absent", "empty"} THEN NoneTime
    ELSE IF t.form = "digits" THEN FromTimestamp(t.digits)
    ELSE FromIsoFormat(t)

\* parse_dt of ts_stats, lines 105-111, under `if start:` / `if end:`.
ParseDt(t) ==
    IF t.form \in {"absent", "empty"} THEN NoneTime ELSE FromIsoFormat(t)

\* COALESCE($1, now()).
Coalesce(parsed, now) == IF parsed.some THEN TimeAt(parsed.n) ELSE TimeAt(now)

\* ------------------------------------------------------- the statements
\* The next value of a serial id column.
NextId(rs) == Len(rs) + 1

\* A mutation of SelectLayerId: an unknown name resolves to the first layer id.
SelectLayerIdOrFirst(ls, name) ==
    IF \E i \in 1..Len(ls) : ls[i].name = name
    THEN ls[CHOOSE i \in 1..Len(ls) : ls[i].name = name].id
    ELSE 1

\* fetchrow("SELECT id FROM gd.layers WHERE name=$1"): the id of the row with
\* that name, 0 for no row (`if not row`).
SelectLayerId(ls, name) ==
    IF \E i \in 1..Len(ls) : ls[i].name = name
    THEN ls[CHOOSE i \in 1..Len(ls) : ls[i].name = name].id
    ELSE 0

\* A mutation of UniqueViolation: the name column has no unique constraint.
NoUniqueViolation(ls, name) == FALSE

\* gd.layers.name is unique: an INSERT of a name a row already has is rejected.
UniqueViolation(ls, name) == \E i \in 1..Len(ls) : ls[i].name = name

\* INSERT INTO gd.layers(name, description, geom_type, srid).
InsertLayer(ls, name) == Append(ls, [id |-> NextId(ls), name |-> name])

\* INSERT INTO gd.features(layer_id, properties, geom).
InsertFeature(fs, layer_id, g) ==
    Append(fs, [id |-> NextId(fs), layer_id |-> layer_id, geom |-> g])

\* A mutation of FeaturesOf: the WHERE clause is missing.
FeaturesOfAnyLayer(fs, layer_id) == fs

\* FROM gd.features WHERE layer_id=$1.
FeaturesOf(fs, layer_id) == SelectSeq(fs, LAMBDA f : f.layer_id = layer_id)

RECURSIVE SumArea(_)
\* COALESCE(SUM(ST_Area(geom::geography)),0).
SumArea(fs) == IF fs = <<>> THEN 0 ELSE Head(fs).geom.area + SumArea(Tail(fs))

RECURSIVE OrderByIdAsc(_)
\* A mutation of OrderByIdDesc: ORDER BY id.
OrderByIdAsc(fs) ==
    IF fs = <<>> THEN <<>>
    ELSE LET m == CHOOSE f \in {fs[i] : i \in 1..Len(fs)} :
                      \A i \in 1..Len(fs) : f.id <= fs[i].id
         IN <<m>> \o OrderByIdAsc(SelectSeq(fs, LAMBDA f : f.id # m.id))

RECURSIVE OrderByIdDesc(_)
\* ORDER BY id DESC.
OrderByIdDesc(fs) ==
    IF fs = <<>> THEN <<>>
    ELSE LET m == CHOOSE f \in {fs[i] : i \in 1..Len(fs)} :
                      \A i \in 1..Len(fs) : f.id >= fs[i].id
         IN <<m>> \o OrderByIdDesc(SelectSeq(fs, LAMBDA f : f.id # m.id))

\* LIMIT $2 (of a limit that is not negative).
Limit(rs, n) == SubSeq(rs, 1, IF n < Len(rs) THEN n ELSE Len(rs))

Ids(rs) == [i \in 1..Len(rs) |-> rs[i].id]

\* A mutation of StatsRowMatches: the end bound is exclusive.
StatsRowMatchesEndOpen(r, sensor_id, sdt, edt) ==
    /\ r.sensor_id = sensor_id
    /\ sdt.some => (r.time.t = "at" /\ r.time.n >= sdt.n)
    /\ edt.some => (r.time.t = "at" /\ r.time.n < edt.n)

\* WHERE sensor_id=$1 [AND time >= $2] [AND time <= $3], lines 103-122.
StatsRowMatches(r, sensor_id, sdt, edt) ==
    /\ r.sensor_id = sensor_id
    /\ sdt.some => (r.time.t = "at" /\ r.time.n >= sdt.n)
    /\ edt.some => (r.time.t = "at" /\ r.time.n <= edt.n)

\* No request has just ended.
NoResp == [op |-> "none", status |-> 0, name |-> "", layer_id |-> 0, limit |-> 0,
           area |-> 0, items |-> <<>>, sensor_id |-> "", time |-> NoTime,
           start |-> NoTime, end |-> NoTime, now |-> 0,
           count |-> 0, sum |-> 0, min |-> 0, max |-> 0, null |-> FALSE]

InitFacade ==
    /\ layers = <<>>
    /\ features = <<>>
    /\ calls = [c \in Callers |-> Idle]
    /\ resp = NoResp
    /\ open = {}

\* ------------------------------------------------------------ the handlers
\* `conn = await get_conn()`, the first line of every handler: the request of
\* client c starts. When the connection fails nothing is held and the request
\* ends with status 500.
request(c, op, connOk) ==
    /\ calls[c] = Idle
    /\ IF connOk
       THEN /\ calls' = [calls EXCEPT ![c] = [op |-> op, stage |-> "connected",
                                               layer_id |-> 0]]
            /\ open' = get_conn(open, c)
            /\ resp' = NoResp
       ELSE /\ resp' = [NoResp EXCEPT !.op = op, !.status = 500]
            /\ UNCHANGED <<calls, open>>
    /\ UNCHANGED <<ingestVars, collectVars, layers, features>>

\* `row = await conn.fetchrow("SELECT id FROM gd.layers WHERE name=$1", name)`
\* and `if not row: raise HTTPException(...)` of layer_area, intersect,
\* insert_feature and get_features.
select_layer(c, name) ==
    /\ calls[c].stage = "connected" /\ calls[c].op \in LayerOps
    /\ LET id == SelectLayerId(layers, name) IN
       IF id = 0
       THEN /\ calls' = [calls EXCEPT ![c] = Idle]
            /\ open' = conn_close(open, c, TRUE)
            /\ resp' = [NoResp EXCEPT !.op = calls[c].op, !.name = name,
                                      !.status = NotFoundStatus(calls[c].op)]
       ELSE /\ calls' = [calls EXCEPT ![c].stage = "resolved", ![c].layer_id = id]
            /\ resp' = NoResp
            /\ UNCHANGED open
    /\ UNCHANGED <<ingestVars, collectVars, layers, features>>

\* create_layer, lines 128-138: one INSERT; nothing catches its exception.
create_layer(c, name) ==
    /\ calls[c].stage = "connected" /\ calls[c].op = "create_layer"
    /\ LET raised == UniqueViolation(layers, name) IN
       /\ layers' = IF raised THEN layers ELSE InsertLayer(layers, name)
       /\ open' = conn_close(open, c, raised)
       /\ resp' = [NoResp EXCEPT !.op = "create_layer", !.name = name,
                                 !.status = IF raised THEN 500 ELSE 200]
    /\ calls' = [calls EXCEPT ![c] = Idle]
    /\ UNCHANGED <<ingestVars, collectVars, features>>

\* insert_feature, lines 148-154: the INSERT with the resolved layer id;
\* ST_GeomFromText raises for a text that is no WKT.
insert_feature(c, g) ==
    /\ calls[c].stage = "resolved" /\ calls[c].op = "insert_feature"
    /\ Len(features) < MaxFeatures
    /\ LET raised == ~g.valid IN
       /\ features' = IF raised THEN features
                      ELSE InsertFeature(features, calls[c].layer_id, g)
       /\ open' = conn_close(open, c, raised)
       /\ resp' = [NoResp EXCEPT !.op = "insert_feature",
                                 !.layer_id = calls[c].layer_id,
                                 !.status = IF raised THEN 500 ELSE 200]
    /\ calls' = [calls EXCEPT ![c] = Idle]
    /\ UNCHANGED <<ingestVars, collectVars, layers>>

\* get_features, lines 163-173; PostgreSQL rejects a negative LIMIT.
get_features(c, limit) ==
    /\ calls[c].stage = "resolved" /\ calls[c].op = "get_features"
    /\ LET raised == limit < 0
           rs == Limit(OrderByIdDesc(FeaturesOf(features, calls[c].layer_id)), limit)
       IN
       /\ open' = conn_close(open, c, raised)
       /\ resp' = IF raised
                  THEN [NoResp EXCEPT !.op = "get_features", !.status = 500,
                                      !.limit = limit]
                  ELSE [NoResp EXCEPT !.op = "get_features", !.status = 200,
                                      !.layer_id = calls[c].layer_id,
                                      !.limit = limit, !.items = Ids(rs)]
    /\ calls' = [calls EXCEPT ![c] = Idle]
    /\ UNCHANGED <<ingestVars, collectVars, layers, features>>

\* layer_area, lines 65-74.
layer_area(c) ==
    /\ calls[c].stage = "resolved" /\ calls[c].op = "layer_area"
    /\ open' = conn_close(open, c, FALSE)
    /\ resp' = [NoResp EXCEPT !.op = "layer_area", !.status = 200,
                              !.layer_id = calls[c].layer_id,
                              !.area = SumArea(FeaturesOf(features, calls[c].layer_id))]
    /\ calls' = [calls EXCEPT ![c] = Idle]
    /\ UNCHANGED <<ingestVars, collectVars, layers, features>>

\* intersect, lines 83-97.
intersect(c, q) ==
    /\ calls[c].stage = "resolved" /\ calls[c].op = "intersect"
    /\ LET raised == ~q.valid
           rs == SelectSeq(FeaturesOf(features, calls[c].layer_id),
                           LAMBDA f : ST_Intersects(f.geom, q))
       IN
       /\ open' = conn_close(open, c, raised)
       /\ resp' = IF raised
                  THEN [NoResp EXCEPT !.op = "intersect", !.status = 500]
                  ELSE [NoResp EXCEPT !.op = "intersect", !.status = 200,
                                      !.layer_id = calls[c].layer_id,
                                      !.items = Ids(rs), !.count = Len(rs)]
    /\ calls' = [calls EXCEPT ![c] = Idle]
    /\ UNCHANGED <<ingestVars, collectVars, layers, features>>

\* list_layers, lines 49-56.
list_layers(c) ==
    /\ calls[c].stage = "connected" /\ calls[c].op = "list_layers"
    /\ open' = conn_close(open, c, FALSE)
    /\ resp' = [NoResp EXCEPT !.op = "list_layers", !.status = 200,
                              !.items = Ids(layers)]
    /\ calls' = [calls EXCEPT ![c] = Idle]
    /\ UNCHANGED <<ingestVars, collectVars, layers, features>>

\* The (sensor_id, value) pairs and the time arguments the clients send.
Readings == {<<"h_temp", 1>>, <<"h_temp", 3>>, <<"x", 1>>}
TimeInputs == {NoTime, EmptyTime, DigitTime(<<"1">>), DigitTime(<<"9", "9">>),
               IsoTime(0), IsoZTime(1), OtherTime}
StartInputs == {NoTime, IsoTime(1), DigitTime(<<"1">>), OtherTime}
EndInputs == {NoTime, IsoZTime(0), IsoTime(1), OtherTime}

\* insert_ts, lines 175-197: the time is parsed, and the row is inserted with
\* COALESCE($1, now()) in a transaction of its own.
insert_ts(c, sensor_id, value, time) ==
    /\ calls[c].stage = "connected" /\ calls[c].op = "insert_ts"
    /\ Len(rows) < MaxReadings
    /\ rows' = Append(rows, [time |-> Coalesce(ParseTime(time), clock),
                             sensor_id |-> sensor_id, value |-> value, src |-> 0])
    /\ open' = conn_close(open, c, FALSE)
    /\ resp' = [NoResp EXCEPT !.op = "insert_ts", !.status = 200,
                              !.sensor_id = sensor_id, !.time = time, !.now = clock]
    /\ calls' = [calls EXCEPT ![c] = Idle]
    /\ UNCHANGED <<gatewayVars, collectVars, layers, features>>

\* ts_stats, lines 99-126: COUNT, MIN, MAX and AVG (kept as sum and count) of
\* the sensor's rows between the bounds that parse; NULL aggregates of no rows.
ts_stats(c, sensor_id, start, end) ==
    /\ calls[c].stage = "connected" /\ calls[c].op = "ts_stats"
    /\ LET sdt == ParseDt(start)
           edt == ParseDt(end)
           m == SelectSeq(rows, LAMBDA r : StatsRowMatches(r, sensor_id, sdt, edt))
       IN resp' = [NoResp EXCEPT !.op = "ts_stats", !.status = 200,
                                 !.sensor_id = sensor_id, !.start = start, !.end = end,
                                 !.count = Len(m), !.sum = SumValues(m),
                                 !.min = IF m = <<>> THEN 0 ELSE MinValue(m),
                                 !.max = IF m = <<>> THEN 0 ELSE MaxValue(m),
                                 !.null = (m = <<>>)]
    /\ open' = conn_close(open, c, FALSE)
    /\ calls' = [calls EXCEPT ![c] = Idle]
    /\ UNCHANGED <<ingestVars, collectVars, layers, features>>

RECURSIVE OrderByTimeDesc(_)
\* ORDER BY time DESC (NULLs first) of the time column.
OrderByTimeDesc(rs) ==
    IF rs = <<>> THEN <<>>
    ELSE LET later(a, b) == a.time.t # "at" \/ (b.time.t = "at" /\ a.time.n >= b.time.n)
             i == CHOOSE k \in 1..Len(rs) : \A j \in 1..Len(rs) : later(rs[k], rs[j])
         IN <<rs[i]>> \o OrderByTimeDesc(SubSeq(rs, 1, i - 1) \o SubSeq(rs, i + 1, Len(rs)))

\* get_ts, lines 440-450; PostgreSQL rejects a negative LIMIT.
get_ts(c, sensor_id, limit) ==
    /\ calls[c].stage = "connected" /\ calls[c].op = "get_ts"
    /\ LET raised == limit < 0
           rs == Limit(OrderByTimeDesc(SelectSeq(rows, LAMBDA r : r.sensor_id = sensor_id)),
                       limit)
       IN
       /\ open' = conn_close(open, c, raised)
       /\ resp' = IF raised
                  THEN [NoResp EXCEPT !.op = "get_ts", !.status = 500]
                  ELSE [NoResp EXCEPT !.op = "get_ts", !.status = 200,
                                      !.sensor_id = sensor_id, !.limit = limit,
                                      !.items = [i \in 1..Len(rs) |-> rs[i].time.n]]
    /\ calls' = [calls EXCEPT ![c] = Idle]
    /\ UNCHANGED <<ingestVars, collectVars, layers, features>>

\* ===================================================== ingest gateway claims
Malformed(p) == p.kind # "object"
FullValid(p) == p.kind = "object" /\ p.ts.t = "num"
NoUsableTs(p) == p.kind = "object" /\ p.ts.t \in {"absent", "text"}

InQueue(k) == \E i \in 1..Len(queue) : queue[i] = k
\* on_message has returned for arrival number k.
Handled(k) == k \in 1..Len(log) /\ ~InQueue(k) /\ k # cur
RowsOf(k) == {i \in 1..Len(rows) : rows[i].src = k}

\* C1: a payload that fails to decode (not UTF-8, not JSON, JSON that is no
\* object) writes no row and never makes an exception leave on_message, so the
\* gateway stays subscribed; with the storage healthy, every valid message
\* {sensor_id, value, ts} the handler has returned for is a row of gd.timeseries,
\* whatever malformed messages came before it.
C1_MalformedIsolated ==
    /\ \A k \in 1..Len(log) :
          /\ Malformed(log[k]) =>
                /\ RowsOf(k) = {}
                /\ \A i \in 1..Len(txn) : txn[i].src # k
                /\ attempts[k] = 0
          /\ (faults = 0 /\ FullValid(log[k]) /\ Handled(k)) =>
                Cardinality(RowsOf(k)) = 1
    /\ exit = "handler" => ~Malformed(log[cur])
    /\ faults = 0 => exit # "handler"

\* C1 witness: a malformed message was handled, then a valid one, and the valid
\* one is stored while the gateway is subscribed.
C1_Witness ==
    /\ gwState = "Subscribed"
    /\ \E k, j \in 1..Len(log) :
          /\ k < j
          /\ Malformed(log[k]) /\ Handled(k)
          /\ FullValid(log[j]) /\ Handled(j)
          /\ RowsOf(j) # {}

\* C2 (as claimed): a failing INSERT or COMMIT, also on a broken connection
\* where the rollback fails too, never makes an exception leave on_message,
\* and leaves no row of that message.
C2_StorageFailureAbsorbed ==
    /\ exit # "handler"
    /\ \A k \in 1..Len(log) : (k = cur /\ pc = "rollback") => RowsOf(k) = {}

\* C3 (as claimed): a failed connection attempt (database or broker) never
\* ends the gateway process; it goes back to Disconnected and retries.
C3_ConnectFailureRetries ==
    gwState = "Terminated" => exit # "startup"

\* C4 (as claimed): an object payload with sensor_id and value whose ts is
\* missing or no number is stored, with the ingestion wall-clock time.
C4_MissingTsStoredAtIngestTime ==
    \A k \in 1..Len(log) :
        (faults = 0 /\ NoUsableTs(log[k]) /\ Handled(k)) =>
            \E i \in RowsOf(k) : rows[i].time = TimeNow

\* C5: on_message runs for one message at a time, oldest first: the open
\* transaction only ever holds the row of the message being handled, every
\* committed row belongs to a message that arrived before the pending ones, and
\* the rows are in arrival order.
C5_CommitOrderIsArrivalOrder ==
    /\ \A i, j \in 1..Len(rows) : i < j => rows[i].src < rows[j].src
    /\ Len(txn) <= 1
    /\ \A i \in 1..Len(txn) : txn[i].src = cur /\ gwState = "Processing"
    /\ \A i \in 1..Len(rows), q \in 1..Len(queue) : rows[i].src < queue[q]
    /\ \A q \in 1..Len(queue) : cur < queue[q]

\* C5 witness: two rows are committed while a message arrived during handling
\* is still pending.
C5_Witness ==
    /\ Len(rows) >= 2
    /\ Len(queue) >= 1
    /\ gwState = "Subscribed"

CountRows(p) ==
    Cardinality({i \in 1..Len(rows) :
        /\ rows[i].sensor_id = p.sensor_id
        /\ rows[i].value = p.value
        /\ rows[i].time = ToTimestamp(p.ts)})
CountDelivered(p) == Cardinality({k \in 1..Len(log) : log[k] = p})

\* C6: every message gets at most one cur.execute and at most one row, the
\* rows never outnumber the messages, and with the storage healthy n deliveries
\* of the same valid message leave exactly n rows with its fields.
C6_AtMostOnceNoDedup ==
    /\ \A k \in 1..MaxMsgs : attempts[k] <= 1
    /\ \A k \in 1..Len(log) : Cardinality(RowsOf(k)) <= attempts[k]
    /\ Len(rows) <= Len(log)
    /\ (faults = 0 /\ gwState = "Subscribed" /\ queue = <<>>) =>
          \A p \in Payloads : FullValid(p) => CountRows(p) = CountDelivered(p)

\* C6 witness: the same valid message was delivered twice and is stored twice.
C6_Witness ==
    \E k, j \in 1..Len(log) :
        /\ k < j /\ log[k] = log[j] /\ FullValid(log[k])
        /\ RowsOf(k) # {} /\ RowsOf(j) # {}

\* ================================================ collector and API claims
\* C7 (as claimed): a pass of a collector loop in which an error occurred
\* (fetch, normalize or store) is followed by the short sleep (300 s NASA,
\* 600 s ESA/Lima), a pass without error by the normal one (3600 s / 7200 s).
C7_ErrorCycleBacksOff ==
    /\ nasa.cycles > 0 =>
          nasa.sleep = IF nasa.error THEN NasaErrorSleep ELSE NasaNormalSleep
    /\ esa.cycles > 0 =>
          esa.sleep = IF esa.error THEN EsaErrorSleep ELSE EsaNormalSleep

\* C8 (as claimed): a NASA pass whose POWER fetch failed is aborted: it stores
\* nothing and the loop takes the short sleep.
C8_FetchFailureAbortsCycle ==
    nasa.fetchFailed => (nasa.stored = 0 /\ nasa.sleep = NasaErrorSleep)

\* C9 (as claimed): a failing query of one source (its table does not exist
\* yet) never fails integrated_analysis as a whole.
C9_SourceFailureIsolated ==
    iaResult.cause # "query"

Position(source) == CHOOSE i \in 1..Len(Sources) : Sources[i] = source
MatchingRows(source) ==
    {i \in 1..Len(store[source]) :
        RowMatches(store[source][i], iaResult.parameter, clock - iaResult.hours_back)}

\* C10: an answer of integrated_analysis lists exactly the sources with at
\* least one matching row, each once, in the order NASA, ESA, LIMA, each with
\* its count of matching rows, and total_data_points is the sum of the listed
\* counts.
C10_ResultShape ==
    iaResult.status = "ok" =>
        LET listed == iaResult.sources IN
        /\ \A i \in 1..Len(listed) :
              /\ listed[i].source \in SourceSet
              /\ listed[i].count > 0
              /\ listed[i].count = Cardinality(MatchingRows(listed[i].source))
        /\ \A s \in SourceSet :
              (MatchingRows(s) # {}) <=> (\E i \in 1..Len(listed) : listed[i].source = s)
        /\ \A i, j \in 1..Len(listed) :
              i < j => Position(listed[i].source) < Position(listed[j].source)
        /\ iaResult.total_data_points =
              Cardinality(MatchingRows("NASA")) + Cardinality(MatchingRows("ESA"))
              + Cardinality(MatchingRows("LIMA"))
        /\ (listed = <<>>) => iaResult.total_data_points = 0

\* C10 witness: an answer that lists some sources and leaves out another, whose
\* table holds rows.
C10_Witness ==
    /\ iaResult.status = "ok"
    /\ Len(iaResult.sources) \in {1, 2}
    /\ iaResult.total_data_points > 1
    /\ \E s \in SourceSet :
          /\ store[s] # <<>>
          /\ \A i \in 1..Len(iaResult.sources) : iaResult.sources[i].source # s

\* The rows of the three observation tables an answer's filter matches.
ObservationCount ==
    Cardinality(MatchingRows("NASA")) + Cardinality(MatchingRows("ESA"))
    + Cardinality(MatchingRows("LIMA"))

\* The readings of gd.timeseries whose sensor id matches the answer's parameter
\* and whose time lies in its window.
MatchingReadings ==
    {i \in 1..Len(rows) :
        /\ rows[i].time.t = "at"
        /\ ILike(rows[i].sensor_id, iaResult.parameter)
        /\ rows[i].time.n >= clock - iaResult.hours_back}

\* C11 (as claimed): the readings of gd.timeseries that match the parameter and
\* the window are counted in total_data_points, next to the rows of the three
\* observation tables.
C11_CoversTimeSeries ==
    iaResult.status = "ok" =>
        iaResult.total_data_points = ObservationCount + Cardinality(MatchingReadings)

\* C11 (amended): integrated_analysis reads the three observation tables only:
\* every listed source is NASA, ESA or LIMA, and the listed counts and
\* total_data_points add up to the matching rows of those three tables,
\* whatever gd.timeseries holds.
C11_ObservationStoresOnly ==
    iaResult.status = "ok" =>
        /\ \A i \in 1..Len(iaResult.sources) : iaResult.sources[i].source \in SourceSet
        /\ TotalCount(iaResult.sources) = ObservationCount
        /\ iaResult.total_data_points = ObservationCount

\* C11 witness: an answer that counts observation rows while gd.timeseries
\* holds a reading that matches the parameter and the window.
C11_Witness ==
    /\ iaResult.status = "ok"
    /\ MatchingReadings # {}
    /\ iaResult.total_data_points > 0

\* name contains sub as a literal substring, compared without regard to case.
ContainsLiteral(name, sub) ==
    LET str == Chars(name)
        pat == Chars(sub)
    IN \E i \in 0..(Len(str) - Len(pat)) :
           \A j \in 1..Len(pat) : Lower(str[i + j]) = Lower(pat[j])

\* The rows of a source the claimed filter counts: the parameter contains the
\* answer's parameter literally, and the timestamp lies in [now - hours_back, now].
ClaimedRows(source) ==
    {i \in 1..Len(store[source]) :
        /\ ContainsLiteral(store[source][i].parameter, iaResult.parameter)
        /\ store[source][i].timestamp >= clock - iaResult.hours_back
        /\ store[source][i].timestamp <= clock}

\* The count an answer lists for a source (0 when it leaves the source out).
ListedCount(source) ==
    IF \E i \in 1..Len(iaResult.sources) : iaResult.sources[i].source = source
    THEN iaResult.sources[CHOOSE i \in 1..Len(iaResult.sources) :
                             iaResult.sources[i].source = source].count
    ELSE 0

\* C12 (as claimed): a row is counted if and only if its parameter contains
\* the query parameter as a literal substring, case-insensitively, with no
\* character of it acting as a wildcard, and its timestamp lies in the closed
\* window.
C12_LiteralSubstringClosedWindow ==
    iaResult.status = "ok" =>
        \A s \in SourceSet : ListedCount(s) = Cardinality(ClaimedRows(s))

\* ============================================== claims on the API's stores
InProgress == {c \in Callers : calls[c] # Idle}

\* C13: every connection a handler of the API or a store call of a collector
\* opens is closed when the call ends, however it ends: the open connections
\* are exactly those of the requests in progress, one each, so with no request
\* in progress none is open, and a request whose connection attempt failed
\* holds nothing.
C13_ConnectionsReleased ==
    /\ open = InProgress
    /\ InProgress = {} => Cardinality(open) = 0

\* C13 witness: a request ended with the HTTPException of an unknown layer and
\* a collector pass ended with an exception of its store call, and no
\* connection is open.
C13_Witness ==
    /\ resp.status = 404
    /\ nasa.cycles > 0 /\ nasa.error
    /\ InProgress = {}
    /\ open = {}

\* Every record of a is a record of b, at the same place.
IsPrefix(a, b) == Len(a) <= Len(b) /\ \A i \in 1..Len(a) : b[i] = a[i]

ReadOps == {"list_layers", "get_features", "layer_area", "intersect", "ts_stats", "get_ts"}

\* C14: a step of the gateway, of a collector or of the API only ever appends
\* to gd.timeseries, to the three observation tables, to gd.features and to
\* gd.layers: every committed record stays, at its place and with its fields;
\* and a step that answers a read request (list, range, stats, intersects,
\* totalArea, integrated analysis) leaves every table as it was.
C14_AppendOnly ==
    [][/\ IsPrefix(rows, rows')
       /\ \A s \in SourceSet : IsPrefix(store[s], store'[s])
       /\ IsPrefix(features, features')
       /\ IsPrefix(layers, layers')
       /\ ((resp' # resp /\ resp'.op \in ReadOps) \/
           (iaResult' # iaResult /\ iaResult'.status # "none"))
             => UNCHANGED <<rows, store, features, layers>>]_vars

\* C14 witness: the gateway committed a reading, a client appended one after
\* it and then read the statistics, and both readings are still there.
C14_Witness ==
    /\ Len(rows) = 2
    /\ rows[1].src > 0 /\ rows[2].src = 0
    /\ resp.op = "ts_stats" /\ resp.count > 0

LayersWithId(id) == {j \in 1..Len(layers) : layers[j].id = id}

\* C15: insert_feature for a name no layer has ends with the HTTPException
\* "Layer not found" and adds no feature; whatever way create_layer and
\* insert_feature requests overlap, every row of gd.features carries the id of
\* exactly one row of gd.layers, and a feature is only ever added by a request
\* whose layer name resolved.
C15_FeatureLayerIntegrity ==
    /\ [](\A i \in 1..Len(features) :
             Cardinality(LayersWithId(features[i].layer_id)) = 1)
    /\ []((resp.op = "insert_feature" /\ resp.status = NotFoundStatus("insert_feature"))
             => \A j \in 1..Len(layers) : layers[j].name # resp.name)
    /\ [][((resp' # resp /\ resp'.op = "insert_feature"
               /\ resp'.status = NotFoundStatus("insert_feature"))
                 => features' = features)
           /\
           (features' # features =>
                 \E c \in Callers :
                     /\ calls[c].op = "insert_feature" /\ calls[c].stage = "resolved"
                     /\ LayersWithId(calls[c].layer_id) # {}
                     /\ Len(features') = Len(features) + 1
                     /\ features'[Len(features')].layer_id = calls[c].layer_id)]_vars

\* C15 witness: with a layer and a feature stored, an insert_feature for an
\* unknown name was refused.
C15_Witness ==
    /\ features # <<>>
    /\ resp.op = "insert_feature" /\ resp.status = NotFoundStatus("insert_feature")
    /\ resp.name \in LayerNames

HasLayer(name) == \E i \in 1..Len(layers) : layers[i].name = name

\* C16: no two rows of gd.layers have the same name, also when create_layer
\* requests for one name overlap; a create_layer for a name that exists fails
\* (the INSERT's unique violation leaves the handler) and leaves gd.layers as
\* it was, and one for a new name adds exactly that layer.
C16_LayerNameUnique ==
    /\ [](\A i, j \in 1..Len(layers) : i # j => layers[i].name # layers[j].name)
    /\ [][\A c \in Callers :
             (calls[c].op = "create_layer" /\ calls'[c] = Idle) =>
                 IF HasLayer(resp'.name)
                 THEN resp'.status = 500 /\ layers' = layers
                 ELSE /\ resp'.status = 200
                      /\ Len(layers') = Len(layers) + 1
                      /\ IsPrefix(layers, layers')
                      /\ layers'[Len(layers')].name = resp'.name]_vars

\* C16 witness: a create_layer for a name that exists was refused while the
\* create_layer request of another client is in progress.
C16_Witness ==
    /\ resp.op = "create_layer" /\ resp.status = 500
    /\ HasLayer(resp.name)
    /\ \E c \in Callers : calls[c].op = "create_layer"

\* The row the insert_ts that just ended appended.
Appended == rows[Len(rows)]

\* C17 (as claimed): insert_ts succeeds for every time string; a digit-only
\* string d is stored as the instant int(d), an ISO-8601 string (also with a
\* trailing Z) as its instant, and an absent, empty or other string with the
\* wall clock of the insert.
C17_DigitsAreUnixSeconds ==
    resp.op = "insert_ts" /\ resp.status = 200 =>
        /\ Appended.sensor_id = resp.sensor_id
        /\ Appended.time =
              CASE resp.time.form = "digits" -> TimeAt(IntOf(resp.time.digits))
                [] resp.time.form \in {"iso", "isoZ"} -> TimeAt(resp.time.n)
                [] OTHER -> TimeAt(resp.now)

\* C17 (amended): insert_ts succeeds for every time string and appends one
\* row; a digit-only string d that datetime.fromtimestamp accepts is stored as
\* the instant int(d), an ISO-8601 string (also with a trailing Z) as its
\* instant, and an absent or empty string, a digit-only string past the range
\* of fromtimestamp, and any other string with the wall clock of the insert.
C17_TimestampDecoding ==
    /\ [](resp.op = "insert_ts" /\ resp.status = 200 =>
             /\ Appended.sensor_id = resp.sensor_id
             /\ Appended.time =
                   CASE resp.time.form = "digits"
                           /\ IntOf(resp.time.digits) <= MaxInstant
                             -> TimeAt(IntOf(resp.time.digits))
                     [] resp.time.form \in {"iso", "isoZ"} -> TimeAt(resp.time.n)
                     [] OTHER -> TimeAt(resp.now))
    /\ [][\A c \in Callers :
             (calls[c].op = "insert_ts" /\ calls'[c] = Idle) =>
                 /\ resp'.status = 200
                 /\ Len(rows') = Len(rows) + 1
                 /\ IsPrefix(rows, rows')]_vars

\* C17 witness: a reading sent with a digit-only time that is an instant and
\* one sent with a digit-only time past the range are both stored, the second
\* with the wall clock.
C17_Witness ==
    /\ Len(rows) = 2
    /\ rows[1].time = TimeAt(1) /\ rows[2].time = TimeAt(0)
    /\ resp.op = "insert_ts" /\ resp.status = 200
    /\ resp.time.form = "digits" /\ IntOf(resp.time.digits) > MaxInstant

\* A bound of ts_stats that is absent or an ISO-8601 instant.
IsInstantOrAbsent(t) == t.form \in {"absent", "iso", "isoZ"}

\* The readings of the answer's sensor between the answer's bounds.
InBounds ==
    {i \in 1..Len(rows) :
        /\ rows[i].sensor_id = resp.sensor_id
        /\ resp.start.form # "absent" => rows[i].time.n >= resp.start.n
        /\ resp.end.form # "absent" => rows[i].time.n <= resp.end.n}

\* C18: an answer of ts_stats for a sensor and bounds that are instants or
\* absent counts exactly the sensor's readings with start <= time <= end; with
\* no such reading min, max and avg are NULL; else min and max are the least
\* and the greatest of their values, avg (sum / count) is their mean, and
\* min <= avg <= max.
C18_StatsResult ==
    (/\ resp.op = "ts_stats" /\ resp.status = 200
     /\ IsInstantOrAbsent(resp.start) /\ IsInstantOrAbsent(resp.end)) =>
        /\ resp.count = Cardinality(InBounds)
        /\ resp.null <=> (resp.count = 0)
        /\ resp.count > 0 =>
              /\ \E i \in InBounds : rows[i].value = resp.min
              /\ \E i \in InBounds : rows[i].value = resp.max
              /\ \A i \in InBounds : resp.min <= rows[i].value /\ rows[i].value <= resp.max
              /\ \E f \in [InBounds -> 1..Cardinality(InBounds)] :
                    /\ \A i, j \in InBounds : i # j => f[i] # f[j]
                    /\ resp.sum = SumValues([k \in 1..Cardinality(InBounds) |->
                                       rows[CHOOSE i \in InBounds : f[i] = k]])
              /\ resp.min * resp.count <= resp.sum
              /\ resp.sum <= resp.max * resp.count

\* C18 witness: an answer that counts a reading between a start and an end
\* bound which leave out another reading of the same sensor.
C18_Witness ==
    /\ resp.op = "ts_stats" /\ resp.status = 200
    /\ resp.start.form = "iso" /\ resp.end.form = "iso"
    /\ resp.count >= 1
    /\ \E i \in 1..Len(rows) : rows[i].sensor_id = resp.sensor_id /\ i \notin InBounds

RECURSIVE AreaOfLayer(_, _)
\* The areas of the stored features of the layer with this id, added up.
AreaOfLayer(fs, id) ==
    IF fs = <<>> THEN 0
    ELSE (IF Head(fs).layer_id = id THEN Head(fs).geom.area ELSE 0)
         + AreaOfLayer(Tail(fs), id)

LayerIds == {layers[i].id : i \in 1..Len(layers)}

\* C19: layer_area answers an existing layer with the sum of the areas (none
\* of them negative) of exactly that layer's features, 0 when it has none,
\* and an unknown layer with 404, and a call that got its connection ends in
\* one of the two; no step makes the total of a layer smaller, and a feature
\* inserted into another layer leaves it as it was.
C19_TotalArea ==
    /\ [](/\ \A i \in 1..Len(features) : features[i].geom.area >= 0
          /\ resp.op = "layer_area" =>
                /\ resp.status = 404 => ~HasLayer(resp.name)
                /\ resp.status = 200 =>
                      /\ resp.layer_id \in LayerIds
                      /\ resp.area = AreaOfLayer(features, resp.layer_id)
                      /\ resp.area >= 0)
    /\ [][\A c \in Callers :
            (calls[c].op = "layer_area" /\ calls'[c].stage = "idle")
                => resp'.op = "layer_area" /\ resp'.status \in {200, 404}]_vars
    /\ [][\A id \in LayerIds :
            /\ AreaOfLayer(features', id) >= AreaOfLayer(features, id)
            /\ (/\ Len(features') = Len(features) + 1
                /\ features'[Len(features')].layer_id # id)
                  => AreaOfLayer(features', id) = AreaOfLayer(features, id)]_vars

\* C19 witness: a total that is not zero, answered while another layer holds
\* a feature of positive area.
C19_Witness ==
    /\ resp.op = "layer_area" /\ resp.status = 200 /\ resp.area > 0
    /\ \E i \in 1..Len(features) :
          features[i].layer_id # resp.layer_id /\ features[i].geom.area > 0

\* The ids of the stored features of the layer with this id.
IdsOfLayer(id) == {features[i].id : i \in {j \in 1..Len(features) : features[j].layer_id = id}}

\* The ids a listing answered.
Listed == {resp.items[i] : i \in 1..Len(resp.items)}

\* C20: get_features with a limit n >= 0 answers an existing layer with ids
\* of features of that layer only, each id smaller than the one before it,
\* min(n, number of the layer's features) of them and no unlisted feature of
\* the layer newer than a listed one; it answers an unknown layer with 404,
\* and a call that got its connection ends in one of the two.
C20_ListFeatures ==
    /\ [](resp.op = "get_features" =>
            /\ resp.status = 404 => ~HasLayer(resp.name)
            /\ resp.status = 200 =>
                  /\ resp.limit >= 0
                  /\ resp.layer_id \in LayerIds
                  /\ Listed \subseteq IdsOfLayer(resp.layer_id)
                  /\ \A i \in 1..(Len(resp.items) - 1) : resp.items[i] > resp.items[i + 1]
                  /\ Len(resp.items) =
                        (IF resp.limit < Cardinality(IdsOfLayer(resp.layer_id))
                         THEN resp.limit ELSE Cardinality(IdsOfLayer(resp.layer_id)))
                  /\ \A x \in IdsOfLayer(resp.layer_id) \ Listed : \A y \in Listed : x < y)
    /\ [][\A c \in Callers :
            (calls[c].op = "get_features" /\ calls'[c].stage = "idle")
                => /\ resp'.op = "get_features"
                   /\ resp'.status \in {200, 404} \/ resp'.limit < 0]_vars

\* C20 witness: a listing cut to one id by its limit, of a layer with an
\* older feature left out.
C20_Witness ==
    /\ resp.op = "get_features" /\ resp.status = 200
    /\ Len(resp.items) = 1 /\ resp.limit = 1
    /\ IdsOfLayer(resp.layer_id) \ Listed # {}

\* The first k - 1 points of a batch.
Before(batch, k) == SubSeq(batch, 1, k - 1)

\* C21: a pass whose k-th INSERT of a batch fails leaves the points 1..k-1 of
\* that batch stored after the rows the table had, and none of the points
\* k..n; in the ESA/Lima pass a failure of the ESA store leaves the Lima
\* table as it was, and a failure at the k-th Lima INSERT leaves the whole
\* ESA batch stored.
C21_PartialBatch ==
    [][/\ \A fetchOk \in BOOLEAN : \A k \in 1..MaxBatch :
            nasa_cycle(fetchOk, InsertFailure(k)) =>
                store'["NASA"] = store["NASA"] \o
                    Before((IF fetchOk THEN PowerData(clock) ELSE <<>>)
                           \o SyntheticSatellite(clock), k)
       /\ \A k \in 1..MaxBatch :
            /\ esa_cycle("ESA", InsertFailure(k)) =>
                  /\ store'["ESA"] = store["ESA"] \o Before(SyntheticEsa(clock), k)
                  /\ store'["LIMA"] = store["LIMA"]
            /\ esa_cycle("LIMA", InsertFailure(k)) =>
                  /\ store'["ESA"] = store["ESA"] \o SyntheticEsa(clock)
                  /\ store'["LIMA"] = store["LIMA"] \o Before(SyntheticLima(clock), k)
       /\ esa_cycle("ESA", ConnFailure) =>
            store'["ESA"] = store["ESA"] /\ store'["LIMA"] = store["LIMA"]]_vars

\* C21 witness: an ESA/Lima pass ended by a failing Lima INSERT, with the
\* whole ESA batch and a part of the Lima batch stored.
C21_Witness ==
    /\ esa.error /\ esa.storedEsa = Len(SyntheticEsa(clock))
    /\ esa.storedLima >= 1 /\ esa.storedLima < Len(SyntheticLima(clock))
    /\ Len(store["ESA"]) >= esa.storedEsa /\ Len(store["LIMA"]) >= esa.storedLima

\* A bound of ts_stats that is given but is no ISO-8601 string: only digits,
\* or any other text.
IsUnparsable(t) == t.form \in {"digits", "other"}

\* A bound of ts_stats that is an ISO-8601 instant.
IsInstant(t) == t.form \in {"iso", "isoZ"}

\* The readings of the answer's sensor that the answer's ISO bounds let in:
\* what the same call without its unparsable bounds selects.
WithoutUnparsable ==
    {i \in 1..Len(rows) :
        /\ rows[i].sensor_id = resp.sensor_id
        /\ IsInstant(resp.start) => rows[i].time.n >= resp.start.n
        /\ IsInstant(resp.end) => rows[i].time.n <= resp.end.n}

\* C22: ts_stats called with a start or an end that is given but is no
\* ISO-8601 string does not fail, and answers as the same call without that
\* bound: the count, the NULLs, the minimum and the maximum are those of the
\* sensor's readings selected by the other bound alone.
C22_UnparsableBoundIgnored ==
    /\ []((resp.op = "ts_stats" /\ (IsUnparsable(resp.start) \/ IsUnparsable(resp.end))) =>
            /\ resp.status = 200
            /\ resp.count = Cardinality(WithoutUnparsable)
            /\ resp.null <=> (WithoutUnparsable = {})
            /\ WithoutUnparsable # {} =>
                  /\ \E i \in WithoutUnparsable : rows[i].value = resp.min
                  /\ \E i \in WithoutUnparsable : rows[i].value = resp.max
                  /\ \A i \in WithoutUnparsable :
                        resp.min <= rows[i].value /\ rows[i].value <= resp.max)
    /\ [][\A c \in Callers :
            (calls[c].op = "ts_stats" /\ calls'[c].stage = "idle")
                => resp'.op = "ts_stats" /\ resp'.status = 200]_vars

\* C22 witness: an answer to a digit-only start and an ISO end that counts a
\* reading older than the second the digits name and leaves out a reading
\* after the end.
C22_Witness ==
    /\ resp.op = "ts_stats" /\ resp.status = 200
    /\ resp.start.form = "digits" /\ IsInstant(resp.end)
    /\ \E i \in WithoutUnparsable : rows[i].time.n < IntOf(resp.start.digits)
    /\ \E i \in 1..Len(rows) :
          rows[i].sensor_id = resp.sensor_id /\ rows[i].time.n > resp.end.n

Init == InitIngest /\ InitCollect /\ InitFacade

\* The collectors and the API next to a gateway that is not running.
InitCollectOnly ==
    InitIngest /\ dbUp /\ brokerUp /\ timeNotNull /\ InitCollect /\ InitFacade

NextCollect ==
    \/ \E fetchOk \in BOOLEAN, f \in Failures(MaxBatch) : nasa_cycle(fetchOk, f)
    \/ \E s \in {"ESA", "LIMA"}, f \in Failures(MaxBatch) : esa_cycle(s, f)
    \/ tick
    \/ \E parameter \in QueryParameters, hours_back \in HoursBackValues,
          connOk \in BOOLEAN : integrated_analysis(parameter, hours_back, connOk)
    \/ ia_respond

SpecCollect == InitCollectOnly /\ [][NextCollect]_vars

\* A reading gd.timeseries holds (appended through insert_ts or by the gateway).
SensorReadings ==
    <<[time |-> TimeAt(0), sensor_id |-> "h_temp", value |-> 19, src |-> 0]>>

\* The collectors and the aggregation next to a time series that holds a reading.
InitAggregate ==
    /\ gwState = "Disconnected" /\ exit = "none" /\ pc = "idle" /\ cur = 0
    /\ queue = <<>> /\ log = <<>> /\ attempts = [k \in 1..MaxMsgs |-> 0]
    /\ rows = SensorReadings
    /\ txn = <<>> /\ inTxn = FALSE /\ connClosed = FALSE
    /\ dbUp = TRUE /\ brokerUp = TRUE /\ timeNotNull = TRUE /\ faults = 0
    /\ InitCollect /\ InitFacade

SpecAggregate == InitAggregate /\ [][NextCollect]_vars

\* The layers and features of the API, with requests that overlap.
FeatureOps == LayerOps \cup {"create_layer", "list_layers"}

NextFeatures ==
    \/ \E c \in Callers, op \in FeatureOps, connOk \in BOOLEAN : request(c, op, connOk)
    \/ \E c \in Callers, name \in LayerNames : select_layer(c, name)
    \/ \E c \in Callers, name \in LayerNames : create_layer(c, name)
    \/ \E c \in Callers, g \in Geoms : insert_feature(c, g)
    \/ \E c \in Callers, limit \in Limits : get_features(c, limit)
    \/ \E c \in Callers : layer_area(c)
    \/ \E c \in Callers, q \in Geoms : intersect(c, q)
    \/ \E c \in Callers : list_layers(c)

SpecFeatures == InitCollectOnly /\ [][NextFeatures]_vars

\* The time series of the API, and the requests of one client.
SeriesOps == {"insert_ts", "ts_stats", "get_ts"}

NextSeries ==
    \/ \E op \in SeriesOps, connOk \in BOOLEAN : request("c1", op, connOk)
    \/ \E r \in Readings, time \in TimeInputs : insert_ts("c1", r[1], r[2], time)
    \/ \E sensor_id \in SensorIds, start \in StartInputs, end \in EndInputs :
          ts_stats("c1", sensor_id, start, end)
    \/ \E sensor_id \in SensorIds, limit \in Limits : get_ts("c1", sensor_id, limit)
    \/ tick

SpecSeries == InitCollectOnly /\ [][NextSeries]_vars

\* The gateway, the collectors and the API side by side, on the one database.
\* What the run writes is counted over all the tables together.
Written ==
    Len(log) + nasa.cycles + esa.cycles + Len(layers) + Len(features)
    + Cardinality({i \in 1..Len(rows) : rows[i].src = 0})

NextSystem ==
    \/ \E op \in FeatureOps \cup SeriesOps, connOk \in BOOLEAN : request("c1", op, connOk)
    \/ \E name \in LayerNames : select_layer("c1", name)
    \/ Written < MaxWrites /\ create_layer("c1", "ports")
    \/ Written < MaxWrites /\ \E g \in Geoms : g.cells # {2} /\ insert_feature("c1", g)
    \/ \E limit \in {-1, 1} : get_features("c1", limit)
    \/ layer_area("c1")
    \/ \E q \in Geoms : q.cells # {1} /\ intersect("c1", q)
    \/ list_layers("c1")
    \/ Written < MaxWrites /\ \E time \in {NoTime, DigitTime(<<"1">>)} :
          insert_ts("c1", "h_temp", 1, time)
    \/ ts_stats("c1", "h_temp", NoTime, IsoTime(1))
    \/ \E limit \in {-1, 1} : get_ts("c1", "h_temp", limit)
    \/ Written < MaxWrites /\ \E f \in {NoFailure, ConnFailure, InsertFailure(2)} :
          nasa_cycle(TRUE, f)
    \/ Written < MaxWrites /\ \E f \in {NoFailure, InsertFailure(2)} :
          esa_cycle("LIMA", f)
    \/ \E connOk \in BOOLEAN : integrated_analysis("temp", DefaultHoursBack, connOk)
    \/ ia_respond
    \/ db_conn
    \/ client_connect
    \/ Written < MaxWrites /\ \E p \in Payloads : FullValid(p) /\ deliver(p)
    \/ loop_receive
    \/ on_message_decode
    \/ \E f \in BOOLEAN : on_message_execute(f)
    \/ on_message_commit
    \/ on_message_rollback

SpecSystem == InitCollectOnly /\ [][NextSystem]_vars

Next ==
    \/ db_conn
    \/ client_connect
    \/ \E p \in Payloads : deliver(p)
    \/ loop_receive
    \/ on_message_decode
    \/ \E f \in BOOLEAN : on_message_execute(f)
    \/ on_message_commit
    \/ on_message_rollback
    \/ db_fails
    \/ db_recovers
    \/ broker_recovers

Spec == Init /\ [][Next]_vars

====
